---- MODULE Spec2Model ----
(***************************************************************************)
(* Segment trees of baselines/common/operation.py: SegmentTree,            *)
(* SumSegmentTree and MinSegmentTree.  Leaf values are integers; +inf of   *)
(* the min tree is the integer Inf, larger than every stored value.        *)
(***************************************************************************)
EXTENDS Integers, Sequences, FiniteSets, TLC

\* ------------------------------------------------------------- bounds
\* capacity = 2^LogCap
LogCap == 2
\* at most MaxStored leaves hold a value other than init_value
MaxStored == 3
\* depth at which the interpreter gives up an unbounded recursion
RecursionLimit == 8

\* float("inf"), the min tree's init_value
Inf == 1000

RECURSIVE Pow2(_)
Pow2(n) == IF n = 0 THEN 1 ELSE 2 * Pow2(n - 1)

\* self.capacity
capacity == Pow2(LogCap)

Kinds == {"Sum", "Min"}

\* the values a caller stores
SumVals == {-1, 0, 1, 2}
MinVals == {1, 2, 3, Inf}
Vals(k) == IF k = "Sum" THEN SumVals ELSE MinVals

\* ------------------------------------------------------ the structure
\* operator.add for the sum tree, the builtin min for the min tree
operation(k, a, b) == IF k = "Sum" THEN a + b ELSE IF b < a THEN b ELSE a

init_value(k) == IF k = "Sum" THEN 0 ELSE Inf

Slots == 0 .. (2 * capacity - 1)

\* self.tree after __init__
InitTree(k) == [i \in Slots |-> init_value(k)]

\* a list subscript: i in [0, len) is itself, i in [-len, 0) counts from the
\* end, anything else raises IndexError
InList(i) == (-(2 * capacity)) <= i /\ i < 2 * capacity
Norm(i) == IF i < 0 THEN i + 2 * capacity ELSE i

\* a slip in the loop body: the left child is read twice
RecomputeLeftTwice(k, t, idx) == operation(k, t[2 * idx], t[2 * idx])

\* one pass of the loop body of __setitem__
Recompute(k, t, idx) == operation(k, t[2 * idx], t[2 * idx + 1])

\* a slip in the loop condition: idx > 1, the root is never recomputed
RECURSIVE WalkBelowRoot(_, _, _)
WalkBelowRoot(k, t, idx) ==
    IF idx > 1
    THEN WalkBelowRoot(k, [t EXCEPT ![idx] = Recompute(k, t, idx)], idx \div 2)
    ELSE t

\* the while loop of __setitem__
RECURSIVE Walk(_, _, _)
Walk(k, t, idx) ==
    IF idx >= 1
    THEN Walk(k, [t EXCEPT ![idx] = Recompute(k, t, idx)], idx \div 2)
    ELSE t

\* a slip in __setitem__: idx += self.capacity is left out
SetItemNoOffset(k, t, index, val) ==
    IF ~InList(index)
    THEN [outcome |-> "IndexError", tree |-> t]
    ELSE [outcome |-> "ok",
          tree |-> Walk(k, [t EXCEPT ![Norm(index)] = val], index \div 2)]

\* __setitem__
SetItem(k, t, index, val) ==
    LET idx == index + capacity IN
    IF ~InList(idx)
    THEN [outcome |-> "IndexError", tree |-> t]
    ELSE [outcome |-> "ok",
          tree |-> Walk(k, [t EXCEPT ![Norm(idx)] = val], idx \div 2)]

\* __getitem__
GetItem(t, index) ==
    LET idx == capacity + index IN
    IF InList(idx)
    THEN [outcome |-> "ok", val |-> t[Norm(idx)]]
    ELSE [outcome |-> "IndexError", val |-> 0]

\* _operate_helper; depth counts the frames on the call stack
RECURSIVE operate_helper(_, _, _, _, _, _, _, _)
operate_helper(k, t, start, end, node, node_start, node_end, depth) ==
    IF depth > RecursionLimit
    THEN [outcome |-> "RecursionError", val |-> 0]
    ELSE IF start = node_start /\ end = node_end
    THEN IF InList(node)
         THEN [outcome |-> "ok", val |-> t[Norm(node)]]
         ELSE [outcome |-> "IndexError", val |-> 0]
    ELSE LET mid == (node_start + node_end) \div 2 IN
         IF end <= mid
         THEN operate_helper(k, t, start, end, 2 * node, node_start, mid, depth + 1)
         ELSE IF mid + 1 <= start
         THEN operate_helper(k, t, start, end, 2 * node + 1, mid + 1, node_end, depth + 1)
         ELSE LET l == operate_helper(k, t, start, mid, 2 * node, node_start, mid, depth + 1)
                  r == operate_helper(k, t, mid + 1, end, 2 * node + 1, mid + 1, node_end, depth + 1)
              IN IF l.outcome # "ok" THEN l
                 ELSE IF r.outcome # "ok" THEN r
                 ELSE [outcome |-> "ok", val |-> operation(k, l.val, r.val)]

\* a slip in the normalisation: end < 0 for end <= 0
NormEndNegativeOnly(end) == (IF end < 0 THEN end + capacity ELSE end) - 1

\* the normalisation of end in operate
NormEnd(end) == (IF end <= 0 THEN end + capacity ELSE end) - 1

\* a slip in operate: the root's range ends at capacity, not capacity - 1
operateRootRange(k, t, start, end) ==
    operate_helper(k, t, start, NormEnd(end), 1, 0, capacity, 1)

\* operate (sum of SumSegmentTree, min of MinSegmentTree)
operate(k, t, start, end) ==
    operate_helper(k, t, start, NormEnd(end), 1, 0, capacity - 1, 1)

\* a slip in the comparison: >= for >, a tie descends left
RECURSIVE RetrieveLoopTieLeft(_, _, _, _)
RetrieveLoopTieLeft(t, upperbound, idx, steps) ==
    IF idx < capacity
    THEN LET left == 2 * idx
             right == left + 1
         IN IF t[left] >= upperbound
            THEN RetrieveLoopTieLeft(t, upperbound, 2 * idx, steps + 1)
            ELSE RetrieveLoopTieLeft(t, upperbound - t[left], right, steps + 1)
    ELSE [val |-> idx - capacity, steps |-> steps]

\* a slip in the return: idx for idx - self.capacity
RECURSIVE RetrieveLoopNoOffset(_, _, _, _)
RetrieveLoopNoOffset(t, upperbound, idx, steps) ==
    IF idx < capacity
    THEN LET left == 2 * idx
             right == left + 1
         IN IF t[left] > upperbound
            THEN RetrieveLoopNoOffset(t, upperbound, 2 * idx, steps + 1)
            ELSE RetrieveLoopNoOffset(t, upperbound - t[left], right, steps + 1)
    ELSE [val |-> idx, steps |-> steps]

\* the while loop of retrieve
RECURSIVE RetrieveLoop(_, _, _, _)
RetrieveLoop(t, upperbound, idx, steps) ==
    IF idx < capacity
    THEN LET left == 2 * idx
             right == left + 1
         IN IF t[left] > upperbound
            THEN RetrieveLoop(t, upperbound, 2 * idx, steps + 1)
            ELSE RetrieveLoop(t, upperbound - t[left], right, steps + 1)
    ELSE [val |-> idx - capacity, steps |-> steps]

\* retrieve
retrieve(t, upperbound) == RetrieveLoop(t, upperbound, 1, 0)

\* ------------------------------------------------------------ reference
Leaves(t) == [j \in 0 .. (capacity - 1) |-> t[capacity + j]]

\* the left-to-right fold of the operation over leaves lo .. hi-1
RECURSIVE NaiveFold(_, _, _, _)
NaiveFold(k, lv, lo, hi) ==
    IF hi - lo = 1 THEN lv[lo]
    ELSE operation(k, NaiveFold(k, lv, lo, hi - 1), lv[hi - 1])

\* sum of leaves 0 .. i-1
RECURSIVE Prefix(_, _)
Prefix(lv, i) == IF i = 0 THEN 0 ELSE Prefix(lv, i - 1) + lv[i - 1]

\* the sum of all leaves
Total(t) == Prefix(Leaves(t), capacity)

Stored(k, t) == Cardinality({j \in 0 .. (capacity - 1) : t[capacity + j] # init_value(k)})

\* -------------------------------------------------------------- state
\* kind: which subclass; tree: self.tree; call: the caller's last finished call;
\* setter, folder: a __setitem__ and an operate in progress on two threads
VARIABLES kind, tree, call, setter, folder

vars == <<kind, tree, call, setter, folder>>

IdleSetter == [pc |-> "idle", index |-> 0, val |-> 0, idx |-> 0, left |-> 0, right |-> 0,
               before |-> <<>>]
IdleFolder == [pc |-> "idle", start |-> 0, end |-> 0, plan |-> <<>>, seen |-> <<>>, val |-> 0]

NoCall == [op |-> "none", a |-> 0, b |-> 0, outcome |-> "ok", val |-> 0, steps |-> 0]

Init ==
    /\ kind \in Kinds
    /\ tree = InitTree(kind)
    /\ call = NoCall
    /\ setter = IdleSetter
    /\ folder = IdleFolder

\* the caller's record of a finished call
Done(op, a, b, outcome, val, steps) ==
    [op |-> op, a |-> a, b |-> b, outcome |-> outcome, val |-> val, steps |-> steps]

OperateCall(start, end) ==
    LET r == operate(kind, tree, start, end) IN
    Done("operate", start, end, r.outcome, r.val, 0)

RetrieveCall(upperbound) ==
    LET r == retrieve(tree, upperbound) IN
    Done("retrieve", upperbound, 0, "ok", r.val, r.steps)

GetCall(index) ==
    LET r == GetItem(tree, index) IN
    Done("get", index, 0, r.outcome, r.val, 0)

ReadOps == {"operate", "retrieve", "get"}

\* tree[index] = val with 0 <= index < capacity
Set ==
    /\ call.op = "none"
    /\ \E index \in 0 .. (capacity - 1), val \in Vals(kind) :
        LET r == SetItem(kind, tree, index, val) IN
        /\ Stored(kind, r.tree) <= MaxStored
        /\ tree' = r.tree
        /\ call' = Done("set", index, val, r.outcome, 0, 0)
        /\ UNCHANGED <<kind, setter, folder>>

StartArgs == -1 .. (capacity + 1)
EndArgs == (-(capacity + 1)) .. (capacity + 1)

\* operate(start, end), sum(start, end), min(start, end)
Operate ==
    /\ call.op = "none"
    /\ \E start \in StartArgs, end \in EndArgs : call' = OperateCall(start, end)
    /\ UNCHANGED <<kind, tree, setter, folder>>

\* sum(), from which the caller draws upperbound
SumAll(t) == operate("Sum", t, 0, 0).val
UpperArgs(t) == -1 .. ((IF SumAll(t) < 0 THEN 0 ELSE SumAll(t)) + 1)

\* a slip in retrieve: self.tree[left] -= upperbound for upperbound -= self.tree[left]
RetrieveInPlace ==
    /\ call.op = "none"
    /\ kind = "Sum"
    /\ \E upperbound \in UpperArgs(tree) :
        /\ call' = RetrieveCall(upperbound)
        /\ tree' = [tree EXCEPT ![2] = IF @ > upperbound THEN @ ELSE @ - upperbound]
    /\ UNCHANGED <<kind, setter, folder>>

\* retrieve(upperbound), of the sum tree only
Retrieve ==
    /\ call.op = "none"
    /\ kind = "Sum"
    /\ \E upperbound \in UpperArgs(tree) : call' = RetrieveCall(upperbound)
    /\ UNCHANGED <<kind, tree, setter, folder>>

\* tree[index]
Get ==
    /\ call.op = "none"
    /\ \E index \in -1 .. capacity : call' = GetCall(index)
    /\ UNCHANGED <<kind, tree, setter, folder>>

\* the caller repeats its last read with the same arguments
Again ==
    /\ call.op \in ReadOps
    /\ call' = CASE call.op = "operate" -> OperateCall(call.a, call.b)
                 [] call.op = "retrieve" -> RetrieveCall(call.a)
                 [] OTHER -> GetCall(call.a)
    /\ UNCHANGED <<kind, tree, setter, folder>>

\* the caller goes on to its next call
Return ==
    /\ call.op # "none"
    /\ call' = NoCall
    /\ UNCHANGED <<kind, tree, setter, folder>>

Next == Set \/ Operate \/ Retrieve \/ Get \/ Again \/ Return

Spec == Init /\ [][Next]_vars

\* ----------------------------------------- a caller that passes any index
IndexArgs == (-(3 * capacity + 1)) .. (capacity + 1)

\* every internal node is the fold of its children and slot 0 is untouched
Consistent(k, t) ==
    /\ t[0] = init_value(k)
    /\ \A i \in 1 .. (capacity - 1) : t[i] = operation(k, t[2 * i], t[2 * i + 1])

\* tree[index] = val with any integer index; a run is followed up to the
\* first call that leaves the structure inconsistent
SetAny ==
    /\ call.op = "none"
    /\ Consistent(kind, tree)
    /\ \E index \in IndexArgs, val \in Vals(kind) :
        LET r == SetItem(kind, tree, index, val) IN
        /\ Stored(kind, r.tree) <= MaxStored
        /\ tree' = r.tree
        /\ call' = Done("set", index, val, r.outcome, 0, 0)
        /\ UNCHANGED <<kind, setter, folder>>

MisuseNext == SetAny \/ Get \/ Return

MisuseSpec == Init /\ [][MisuseNext]_vars

\* ------------------------- one __setitem__ and one operate on two threads,
\* interleaved at single reads and writes of self.tree
RECURSIVE Fill(_, _, _, _)
Fill(k, t, v, n) == IF n = 0 THEN t ELSE Fill(k, SetItem(k, t, n - 1, v).tree, v, n - 1)

\* the tree after v was stored at every index
Filled(k, v) == Fill(k, InitTree(k), v, capacity)

ConcInit ==
    /\ kind \in Kinds
    /\ \E v \in Vals(kind) : tree = Filled(kind, v)
    /\ call = NoCall
    /\ setter = IdleSetter
    /\ folder = IdleFolder

\* the slots _operate_helper reads, in the order it reads them
RECURSIVE FoldReads(_, _, _, _, _)
FoldReads(start, end, node, node_start, node_end) ==
    IF start = node_start /\ end = node_end
    THEN <<node>>
    ELSE LET mid == (node_start + node_end) \div 2 IN
         IF end <= mid
         THEN FoldReads(start, end, 2 * node, node_start, mid)
         ELSE IF mid + 1 <= start
         THEN FoldReads(start, end, 2 * node + 1, mid + 1, node_end)
         ELSE FoldReads(start, mid, 2 * node, node_start, mid)
                  \o FoldReads(mid + 1, end, 2 * node + 1, mid + 1, node_end)

\* idx += self.capacity
SetBegin ==
    /\ setter.pc = "idle"
    /\ \E index \in 0 .. (capacity - 1), val \in Vals(kind) :
        setter' = [pc |-> "leaf", index |-> index, val |-> val, idx |-> index + capacity,
                   left |-> 0, right |-> 0, before |-> Leaves(tree)]
    /\ UNCHANGED <<kind, tree, call, folder>>

\* where the loop of __setitem__ goes after idx //= 2
LoopPc(idx) == IF idx >= 1 THEN "left" ELSE "done"

\* self.tree[idx] = val; idx //= 2
SetWriteLeaf ==
    /\ setter.pc = "leaf"
    /\ tree' = [tree EXCEPT ![setter.idx] = setter.val]
    /\ setter' = [setter EXCEPT !.idx = setter.idx \div 2, !.pc = LoopPc(setter.idx \div 2)]
    /\ UNCHANGED <<kind, call, folder>>

\* the read of self.tree[2 * idx]
SetReadLeft ==
    /\ setter.pc = "left"
    /\ setter' = [setter EXCEPT !.left = tree[2 * setter.idx], !.pc = "right"]
    /\ UNCHANGED <<kind, tree, call, folder>>

\* the read of self.tree[2 * idx + 1]
SetReadRight ==
    /\ setter.pc = "right"
    /\ setter' = [setter EXCEPT !.right = tree[2 * setter.idx + 1], !.pc = "write"]
    /\ UNCHANGED <<kind, tree, call, folder>>

\* self.tree[idx] = self.operation(left value, right value); idx //= 2
SetWriteNode ==
    /\ setter.pc = "write"
    /\ LET read == [tree EXCEPT ![2 * setter.idx] = setter.left,
                                ![2 * setter.idx + 1] = setter.right]
       IN tree' = [tree EXCEPT ![setter.idx] = Recompute(kind, read, setter.idx)]
    /\ setter' = [setter EXCEPT !.idx = setter.idx \div 2, !.pc = LoopPc(setter.idx \div 2)]
    /\ UNCHANGED <<kind, call, folder>>

\* operate(start, end) is entered with a valid range
FoldBegin ==
    /\ folder.pc = "idle"
    /\ \E start \in 0 .. (capacity - 1), end \in 1 .. capacity :
        /\ start < end
        /\ folder' = [pc |-> "run", start |-> start, end |-> end,
                      plan |-> FoldReads(start, NormEnd(end), 1, 0, capacity - 1),
                      seen |-> <<>>, val |-> 0]
    /\ UNCHANGED <<kind, tree, call, setter>>

\* return self.tree[node]
FoldRead ==
    /\ folder.pc = "run"
    /\ Len(folder.seen) < Len(folder.plan)
    /\ folder' = [folder EXCEPT !.seen = Append(@, tree[folder.plan[Len(folder.seen) + 1]])]
    /\ UNCHANGED <<kind, tree, call, setter>>

\* the values the fold read, laid out as the tree it saw
SeenTree(f) ==
    [n \in Slots |-> IF \E i \in 1 .. Len(f.plan) : f.plan[i] = n
                     THEN f.seen[CHOOSE i \in 1 .. Len(f.plan) : f.plan[i] = n]
                     ELSE 0]

\* operate returns the fold of the values it read
FoldReturn ==
    /\ folder.pc = "run"
    /\ Len(folder.seen) = Len(folder.plan)
    /\ folder' = [folder EXCEPT
                     !.pc = "done",
                     !.val = operate(kind, SeenTree(folder), folder.start, folder.end).val]
    /\ UNCHANGED <<kind, tree, call, setter>>

SetterNext == SetBegin \/ SetWriteLeaf \/ SetReadLeft \/ SetReadRight \/ SetWriteNode

FolderNext == FoldBegin \/ FoldRead \/ FoldReturn

ConcNext == SetterNext \/ FolderNext

ConcSpec == ConcInit /\ [][ConcNext]_vars

\* both threads are scheduled until they return
ConcFairSpec == ConcSpec /\ WF_vars(SetterNext) /\ WF_vars(FolderNext)

\* ------------------------------------------------------------- claims
Internal == 1 .. (capacity - 1)
Indices == 0 .. (capacity - 1)

\* C1: in the initial state and after any sequence of set calls with
\* 0 <= index < capacity, every internal node i in [1, capacity) holds
\* operation(tree[2i], tree[2i+1]).
C1_FoldInvariant ==
    \A i \in Internal : tree[i] = operation(kind, tree[2 * i], tree[2 * i + 1])

C1_Witness ==
    /\ call.op = "set"
    /\ Stored(kind, tree) >= 2
    /\ tree[1] # init_value(kind)

\* C2: for 0 <= start < end <= capacity, operate(start, end) returns the naive
\* left-to-right fold of the operation over leaves start .. end-1.
C2_FoldCorrect ==
    (call.op = "operate" /\ 0 <= call.a /\ call.a < call.b /\ call.b <= capacity)
        => /\ call.outcome = "ok"
           /\ call.val = NaiveFold(kind, Leaves(tree), call.a, call.b)

\* a query that spans both children of the root without covering either
C2_Witness ==
    /\ call.op = "operate" /\ call.a = 1 /\ call.b = capacity - 1
    /\ call.outcome = "ok"
    /\ call.val # init_value(kind)
    /\ Stored(kind, tree) >= 2

\* C3: on a sum tree whose leaves sum to T > 0, for 0 <= upperbound < T,
\* retrieve(upperbound) returns i in [0, capacity) with
\* sum of leaves 0..i-1 <= upperbound < sum of leaves 0..i.
C3_RetrieveCorrect ==
    (call.op = "retrieve" /\ Total(tree) > 0 /\ 0 <= call.a /\ call.a < Total(tree))
        => /\ call.val \in Indices
           /\ Prefix(Leaves(tree), call.val) <= call.a
           /\ call.a < Prefix(Leaves(tree), call.val + 1)

\* upperbound equals the sum under the root's left child: the descent went right
C3_Witness ==
    /\ call.op = "retrieve" /\ Total(tree) > 0
    /\ 0 <= call.a /\ call.a < Total(tree)
    /\ tree[2] > 0 /\ call.a = tree[2]
    /\ call.val >= capacity \div 2

\* C4 as stated: for start in [0, capacity) and every end <= 0, operate(start, end)
\* returns the fold over leaves start .. capacity-1.
C4_EndIsCapacity ==
    (call.op = "operate" /\ 0 <= call.a /\ call.a < capacity /\ call.b <= 0)
        => /\ call.outcome = "ok"
           /\ call.val = NaiveFold(kind, Leaves(tree), call.a, capacity)

\* C4 as amended: for end <= 0 and 0 <= start < capacity + end, operate(start, end)
\* returns the fold over leaves start .. capacity+end-1; with end = 0 that is
\* start .. capacity-1, and operate(0, 0) folds the whole structure.
C4_EndCountsFromCapacity ==
    (call.op = "operate" /\ call.b <= 0 /\ 0 <= call.a /\ call.a < capacity + call.b)
        => /\ call.outcome = "ok"
           /\ call.val = NaiveFold(kind, Leaves(tree), call.a, capacity + call.b)

\* a negative end whose fold differs from the fold through the last leaf
C4_Witness ==
    /\ call.op = "operate" /\ call.b < 0
    /\ 0 <= call.a /\ call.a < capacity + call.b
    /\ call.outcome = "ok"
    /\ call.val # NaiveFold(kind, Leaves(tree), call.a, capacity)

\* C6: every call ends; operate(start, end) with start, end in [0, capacity]
\* ends with a value or an InvalidQueryRange failure, never in a recursion
\* that does not reach its base case.
C6_Terminates ==
    /\ call.outcome # "RecursionError"
    /\ (call.op = "operate" /\ call.a \in 0 .. capacity /\ call.b \in 0 .. capacity)
           => call.outcome \in {"ok", "InvalidQueryRange"}

Ancestors(index) == {(capacity + index) \div Pow2(j) : j \in 1 .. LogCap}

\* C7: set(index, value) with 0 <= index < capacity makes get(index) = value,
\* keeps every other leaf, every internal node that is no ancestor of the
\* written leaf, and slot 0.
C7_SetFrame ==
    [][call'.op = "set" =>
          /\ GetItem(tree', call'.a) = [outcome |-> "ok", val |-> call'.b]
          /\ \A j \in Indices \ {call'.a} : tree'[capacity + j] = tree[capacity + j]
          /\ \A n \in Internal \ Ancestors(call'.a) : tree'[n] = tree[n]
          /\ tree'[0] = tree[0]
          /\ DOMAIN tree' = DOMAIN tree
      ]_vars

\* a set that changed its leaf and the root while another leaf holds a value
C7_Witness ==
    /\ call.op = "set"
    /\ tree[capacity + call.a] = call.b
    /\ call.b # init_value(kind)
    /\ \E j \in Indices \ {call.a} : tree[capacity + j] # init_value(kind)

C10_RetrieveInRange ==
    call.op = "retrieve"
        => /\ call.steps = LogCap
           /\ call.val \in Indices
           /\ (tree = InitTree(kind) /\ call.a = 0) => call.val = capacity - 1

\* an upperbound outside [0, total)
C10_Witness ==
    /\ call.op = "retrieve"
    /\ (call.a < 0 \/ call.a >= Total(tree))
    /\ tree # InitTree(kind)
    /\ call.val \in Indices

\* C5: set(index, value) with index < 0 or index >= capacity fails with an
\* index-out-of-bounds error and writes no slot of tree.
C5_OutOfRangeRejected ==
    [][(call'.op = "set" /\ (call'.a < 0 \/ call'.a >= capacity))
          => (call'.outcome = "IndexError" /\ tree' = tree)]_vars

\* the folds of the leaves as they were before the set and as they are after it
FoldBefore == NaiveFold(kind, setter.before, folder.start, folder.end)
FoldAfter ==
    NaiveFold(kind, [setter.before EXCEPT ![setter.index] = setter.val],
              folder.start, folder.end)

TornFold ==
    /\ folder.pc = "done"
    /\ setter.pc # "idle"
    /\ folder.val \notin {FoldBefore, FoldAfter}

\* C9 as stated: a set and a range fold interleaved at single slot reads and
\* writes produce a fold that returns neither the fold of the leaves before the
\* set nor the fold of the leaves after it.
C9_TornFoldOccurs == <>TornFold

\* C9 as amended: however one valid set and one valid range fold interleave,
\* the fold returns the fold of the leaves before the set or the fold of the
\* leaves after it.
C9_NoTornFold == ~TornFold

\* the fold returned the new value while the set was still recomputing ancestors
C9_Witness ==
    /\ folder.pc = "done"
    /\ setter.pc \in {"left", "right", "write"}
    /\ Len(folder.plan) >= 2
    /\ folder.val = FoldAfter
    /\ FoldAfter # FoldBefore

====
